---- MODULE Spec2Model ----
(***************************************************************************)
(* Model of server.js: the rate limiter, the recipient validators, the     *)
(* content screener, the template renderer, sendEmail and the two POST     *)
(* routes.  JavaScript strings are sequences of one-character strings, so  *)
(* that lower-casing, substring search, concatenation and counting are     *)
(* computed as the code computes them.                                     *)
(***************************************************************************)
EXTENDS Integers, Sequences, FiniteSets, TLC

(***************************************************************************)
(* JavaScript values                                                       *)
(***************************************************************************)
\* The value `undefined` (a missing property).  It is a one-element tuple
\* holding a nine-letter string, so it differs from every character sequence.
undefined == <<"undefined">>

\* JSON null, as an element of the bulk list.
null == [isNull |-> TRUE]

str_undefined == <<"u", "n", "d", "e", "f", "i", "n", "e", "d">>
str_br == <<"<", "b", "r", ">">>

UpperChars == <<"A", "B", "C", "D", "E", "F", "G", "H", "I", "J", "K", "L", "M",
                "N", "O", "P", "Q", "R", "S", "T", "U", "V", "W", "X", "Y", "Z">>

LowerChars == <<"a", "b", "c", "d", "e", "f", "g", "h", "i", "j", "k", "l", "m",
                "n", "o", "p", "q", "r", "s", "t", "u", "v", "w", "x", "y", "z">>

IsUpper(c) == \E i \in 1..Len(UpperChars) : UpperChars[i] = c

\* String.prototype.toLowerCase on the characters used here (ASCII).
toLowerCase(s) ==
  [i \in 1..Len(s) |->
     IF IsUpper(s[i])
       THEN LowerChars[CHOOSE k \in 1..Len(UpperChars) : UpperChars[k] = s[i]]
       ELSE s[i]]

\* String.prototype.includes
includes(s, sub) ==
  \E i \in 0..(Len(s) - Len(sub)) : SubSeq(s, i + 1, i + Len(sub)) = sub

\* Template-literal coercion `${x}`: undefined becomes the text "undefined".
StringOf(x) == IF x = undefined THEN str_undefined ELSE x

\* Truthiness of a string-or-undefined value: undefined and "" are falsy.
Truthy(x) == x # undefined /\ x # <<>>

\* A property read o.f: undefined when the object has no such property.
Get(o, f) == IF f \in DOMAIN o THEN o[f] ELSE undefined

\* Object spread { ...a, ...b }: b's properties win; spreading null adds nothing.
Props(o) == IF o = null THEN {} ELSE DOMAIN o

\* The properties of a win over those of b.
Spread_FirstWins(a, b) ==
  [f \in Props(a) \cup Props(b) |-> IF f \in Props(a) THEN a[f] ELSE b[f]]

Spread(a, b) ==
  [f \in Props(a) \cup Props(b) |-> IF f \in Props(b) THEN b[f] ELSE a[f]]

RECURSIVE Flatten(_)
Flatten(ss) == IF ss = <<>> THEN <<>> ELSE Head(ss) \o Flatten(Tail(ss))

(***************************************************************************)
(* validateEmail / validateDomain                                          *)
(***************************************************************************)
deny_test == <<"t", "e", "s", "t", "@", "t", "e", "s", "t", ".", "c", "o", "m">>
deny_example == <<"e", "x", "a", "m", "p", "l", "e", "@", "e", "x", "a", "m", "p", "l", "e", ".", "c", "o", "m">>
deny_admin == <<"a", "d", "m", "i", "n", "@", "a", "d", "m", "i", "n", ".", "c", "o", "m">>

denylist == <<deny_test, deny_example, deny_admin>>

\* validator.isIn(value, list)
isIn(v, list) == \E i \in 1..Len(list) : list[i] = v

AtPositions(s) == {i \in 1..Len(s) : s[i] = "@"}

\* validator.isEmail on the addresses used here: one "@", a non-empty local
\* part, and a domain with a dot that neither starts nor ends it.
isEmail(s) ==
  /\ Cardinality(AtPositions(s)) = 1
  /\ LET at == CHOOSE i \in AtPositions(s) : TRUE
         dom == SubSeq(s, at + 1, Len(s))
     IN  /\ at > 1
         /\ Len(dom) >= 3
         /\ dom[1] # "."
         /\ dom[Len(dom)] # "."
         /\ \E j \in 1..Len(dom) : dom[j] = "."

validateEmail(email) == isEmail(email) /\ ~isIn(toLowerCase(email), denylist)

\* What dns.resolveMx can do: resolve to a list of records (possibly empty)
\* or reject with an error.
DnsOutcomes == {[kind |-> "records", n |-> 1],
                [kind |-> "records", n |-> 0],
                [kind |-> "error", n |-> 0]}

\* email.split('@')[1]: what stands between the first "@" and the next one,
\* or the end; undefined when there is no "@".
domain(email) ==
  LET ats == AtPositions(email)
  IN  IF ats = {} THEN undefined
      ELSE LET first == CHOOSE i \in ats : \A j \in ats : i <= j
               later == {j \in ats : j > first}
               next == IF later = {} THEN Len(email) + 1
                       ELSE CHOOSE i \in later : \A j \in later : i <= j
           IN  SubSeq(email, first + 1, next - 1)

\* An empty answer counts as the domain having mail servers.
validateDomain_AnyAnswer(outcome) == outcome.kind # "error"

\* mxRecords.length > 0, or false from the catch block when the lookup failed.
validateDomain(outcome) ==
  IF outcome.kind = "error" THEN FALSE ELSE outcome.n > 0

(***************************************************************************)
(* validateEmailContent                                                    *)
(***************************************************************************)
kw_free_money == <<"f", "r", "e", "e", " ", "m", "o", "n", "e", "y">>
kw_click_here_now == <<"c", "l", "i", "c", "k", " ", "h", "e", "r", "e", " ", "n", "o", "w">>
kw_urgent_action_required == <<"u", "r", "g", "e", "n", "t", " ", "a", "c", "t", "i", "o", "n", " ", "r", "e", "q", "u", "i", "r", "e", "d">>
kw_congratulations_you_won == <<"c", "o", "n", "g", "r", "a", "t", "u", "l", "a", "t", "i", "o", "n", "s", " ", "y", "o", "u", " ", "w", "o", "n">>
kw_limited_time_offer == <<"l", "i", "m", "i", "t", "e", "d", " ", "t", "i", "m", "e", " ", "o", "f", "f", "e", "r">>
kw_act_now == <<"a", "c", "t", " ", "n", "o", "w">>
kw_make_money_fast == <<"m", "a", "k", "e", " ", "m", "o", "n", "e", "y", " ", "f", "a", "s", "t">>
kw_no_obligation == <<"n", "o", " ", "o", "b", "l", "i", "g", "a", "t", "i", "o", "n">>
kw_risk_free == <<"r", "i", "s", "k", " ", "f", "r", "e", "e">>

spamKeywords == <<kw_free_money, kw_click_here_now, kw_urgent_action_required,
                  kw_congratulations_you_won, kw_limited_time_offer, kw_act_now,
                  kw_make_money_fast, kw_no_obligation, kw_risk_free>>

\* Every occurrence of every keyword is counted, not every keyword once.
suspiciousCount_Occurrences(subject, text, html) ==
  LET content == toLowerCase(StringOf(subject) \o <<" ">> \o StringOf(text)
                             \o <<" ">> \o StringOf(html))
      Occurrences(keyword) ==
        Cardinality({i \in 0..(Len(content) - Len(keyword)) :
                       SubSeq(content, i + 1, i + Len(keyword)) = keyword})
      RECURSIVE Sum(_)
      Sum(k) == IF k = 0 THEN 0 ELSE Occurrences(spamKeywords[k]) + Sum(k - 1)
  IN  Sum(Len(spamKeywords))

\* spamKeywords.filter(keyword => content.includes(keyword)).length
suspiciousCount(subject, text, html) ==
  LET content == toLowerCase(StringOf(subject) \o <<" ">> \o StringOf(text)
                             \o <<" ">> \o StringOf(html))
      Hit(keyword) == includes(content, keyword)
  IN  Len(SelectSeq(spamKeywords, Hit))

\* subject + text: the sum of two undefined values is NaN, a number, which has
\* no match method; one undefined operand is concatenated as "undefined".
PlusIsNaN(subject, text) == subject = undefined /\ text = undefined

Plus(subject, text) == StringOf(subject) \o StringOf(text)

\* (s.match(/[A-Z]/g) || []).length
RECURSIVE capsCount(_)
capsCount(s) ==
  IF s = <<>> THEN 0
  ELSE (IF IsUpper(Head(s)) THEN 1 ELSE 0) + capsCount(Tail(s))

\* caps.length / total > 0.3 in IEEE doubles.  The quotient is correctly
\* rounded and the literal 0.3 is the double nearest to 3/10, so for these
\* lengths the comparison is 10 * caps > 3 * total; 0 / 0 is NaN, and NaN > 0.3
\* is false.
ratioAbove(caps, total) == total # 0 /\ 10 * caps > 3 * total

\* Two matching keywords are already too many.
screenRule_TwoKeywords(subject, text, html) ==
  IF suspiciousCount(subject, text, html) >= 2 THEN "keywords"
  ELSE IF PlusIsNaN(subject, text) THEN "TypeError"
  ELSE IF ratioAbove(capsCount(Plus(subject, text)), Len(Plus(subject, text)))
         THEN "caps"
  ELSE "none"

\* The capitals of html are counted too.
screenRule_CapsOfHtml(subject, text, html) ==
  IF suspiciousCount(subject, text, html) > 2 THEN "keywords"
  ELSE IF PlusIsNaN(subject, text) THEN "TypeError"
  ELSE IF ratioAbove(capsCount(Plus(subject, text) \o html),
                     Len(Plus(subject, text) \o html))
         THEN "caps"
  ELSE "none"

\* The statement at which validateEmailContent ends: "keywords" and "caps" are
\* its two `return false`, "none" its `return true`, and "TypeError" the
\* exception of calling match on NaN.
screenRule(subject, text, html) ==
  IF suspiciousCount(subject, text, html) > 2 THEN "keywords"
  ELSE IF PlusIsNaN(subject, text) THEN "TypeError"
  ELSE IF ratioAbove(capsCount(Plus(subject, text)), Len(Plus(subject, text)))
         THEN "caps"
  ELSE "none"

\* The value validateEmailContent returns, given where it ends.
validateEmailContent(subject, text, html) == screenRule(subject, text, html) = "none"

(***************************************************************************)
(* createEmailTemplate                                                     *)
(***************************************************************************)
\* process.env.DOMAIN_NAME || 'your-domain.com', with DOMAIN_NAME unset.
footerDomain == "your-domain.com"

\* The fixed markup around ${content} is kept as one token per stretch.
templates(content) ==
  [notification |->
     <<"<notification: card head>">> \o content
       \o <<"<notification: footer, sent from ", footerDomain, ">">>,
   transactional |->
     <<"<transactional: head>">> \o content
       \o <<"<transactional: hr, footer, from ", footerDomain, ">">>]

\* The names every object literal inherits from Object.prototype.
ObjectPrototype ==
  {"constructor", "toString", "toLocaleString", "valueOf", "hasOwnProperty",
   "isPrototypeOf", "propertyIsEnumerable", "__proto__", "__defineGetter__",
   "__defineSetter__", "__lookupGetter__", "__lookupSetter__"}

\* The inherited member of that name: a function (for __proto__ the prototype
\* object), which is truthy and is no string.
Inherited(name) == <<"Object.prototype", name>>

\* templates[type] || templates.notification.  The lookup templates[type]
\* finds the object's own two keys and, failing those, what it inherits.
createEmailTemplate(content, type) ==
  IF type \in DOMAIN templates(content) THEN templates(content)[type]
  ELSE IF type \in ObjectPrototype THEN Inherited(type)
  ELSE templates(content).notification

\* text.replace(/\n/g, '<br>')
replaceNewlines(text) ==
  Flatten([i \in 1..Len(text) |-> IF text[i] = "\n" THEN str_br ELSE <<text[i]>>])

(***************************************************************************)
(* Requests                                                                *)
(***************************************************************************)
AddrAlice == <<"a", "l", "i", "c", "e", "@", "c", "o", "r", "p", ".", "i", "o">>
AddrBob == <<"b", "o", "b", "@", "m", "a", "i", "l", ".", "o", "r", "g">>
AddrDenied == <<"t", "e", "s", "t", "@", "t", "e", "s", "t", ".", "c", "o", "m">>
AddrDeniedUpper == <<"T", "e", "s", "t", "@", "T", "E", "S", "T", ".", "c", "o", "m">>
AddrNoAt == <<"n", "o", "t", "-", "a", "n", "-", "a", "d", "d", "r", "e", "s", "s">>

AddrEmpty == <<>>

SubjMeeting == <<"M", "e", "e", "t", "i", "n", "g", " ", "t", "o", "m", "o", "r", "r", "o", "w">>
SubjFreeMoney == <<"F", "r", "e", "e", " ", "M", "o", "n", "e", "y", "!", "!", "!", " ", "C", "l", "i", "c", "k", " ", "h", "e", "r", "e", " ", "n", "o", "w", " ", "t", "o", " ", "w", "i", "n">>
SubjAllCaps == <<"H", "E", "L", "L", "O", " ", "T", "H", "E", "R", "E", " ", "T", "H", "I", "S", " ", "I", "S", " ", "A", "L", "L", " ", "C", "A", "P", "S", " ", "T", "E", "X", "T">>
SubjActNowTwice == <<"a", "c", "t", " ", "n", "o", "w", " ", "a", "c", "t", " ", "n", "o", "w">>
SubjRiskFree == <<"r", "i", "s", "k", " ", "f", "r", "e", "e">>
SubjThreeOfTen == <<"A", "B", "C", "d", "e", "f", "g", "h", "i", "j">>
SubjFourOfTen == <<"A", "B", "C", "D", "e", "f", "g", "h", "i", "j">>

SubjEmpty == <<>>

TextSeeYou == <<"S", "e", "e", " ", "y", "o", "u", " ", "a", "t", " ", "1", "0", "a", "m", ".">>
TextMoney == <<"m", "o", "n", "e", "y", " ", "f", "o", "r", " ", "y", "o", "u", ".", " ", "A", "c", "t", " ", "N", "o", "w", ",", " ", "n", "o", " ", "o", "b", "l", "i", "g", "a", "t", "i", "o", "n">>
TextTwoLines == <<"l", "i", "n", "e", "1", "\n", "l", "i", "n", "e", "2">>
TextCapsOffer == <<"L", "I", "M", "I", "T", "E", "D", " ", "T", "I", "M", "E", " ", "O", "F", "F", "E", "R">>

TextEmpty == <<>>

HtmlOk == <<"<", "p", ">", "o", "k", "<", "/", "p", ">">>
HtmlUpper == <<"<", "B", ">", "H", "E", "L", "L", "O", "<", "/", "B", ">">>
HtmlSpam == <<"A", "C", "T", " ", "N", "O", "W", "!", " ", "R", "I", "S", "K", " ", "F", "R", "E", "E", ",", " ", "L", "I", "M", "I", "T", "E", "D", " ", "T", "I", "M", "E", " ", "O", "F", "F", "E", "R">>

HtmlEmpty == <<>>

EmptyObj == [f \in {} |-> f]

\* An object property that is left out when `present` is false.
Prop(present, f, v) == IF present THEN f :> v ELSE EmptyObj

\* A property holding a string, left out when the value is undefined.
StrProp(f, v) == Prop(v # undefined, f, v)

Subjects == {SubjMeeting, SubjFreeMoney, SubjAllCaps, SubjActNowTwice,
             SubjRiskFree, SubjThreeOfTen, SubjFourOfTen, SubjEmpty, undefined}

Texts == {TextSeeYou, TextMoney, TextTwoLines, TextCapsOffer, TextEmpty, undefined}

Htmls == {HtmlOk, HtmlUpper, HtmlSpam, HtmlEmpty, undefined}

\* Requests that differ in their content, to one good recipient.
ContentBodies ==
  {[to |-> AddrAlice] @@ StrProp("subject", s) @@ StrProp("text", t)
     @@ StrProp("html", h) :
     s \in Subjects, t \in Texts, h \in Htmls}

MaxCc == 2

MaxBcc == 1

SeqsUpTo(S, n) == UNION {[1..k -> S] : k \in 0..n}

Tos == {AddrAlice, AddrDenied, AddrDeniedUpper, AddrNoAt, undefined}

CcLists == SeqsUpTo({AddrAlice, AddrNoAt, AddrEmpty}, MaxCc)

BccLists == SeqsUpTo({AddrBob, AddrDenied}, MaxBcc)

\* Requests that differ in their recipients, with acceptable content.
RecipientBodies ==
  {[subject |-> SubjMeeting, text |-> TextSeeYou] @@ StrProp("to", to)
     @@ Prop(hasCc, "cc", cc) @@ Prop(hasBcc, "bcc", bcc) :
     to \in Tos, cc \in CcLists, bcc \in BccLists,
     hasCc \in BOOLEAN, hasBcc \in BOOLEAN}

TemplateTypes == {"notification", "transactional", "newsletter", "constructor"}

\* Requests that differ in their templateType.
TemplateBodies ==
  {[to |-> AddrAlice, subject |-> SubjMeeting, text |-> TextTwoLines,
    templateType |-> tt] @@ StrProp("html", h) :
     tt \in TemplateTypes, h \in {HtmlOk, undefined}}

EmailBodies == ContentBodies \cup RecipientBodies \cup TemplateBodies

\* Array.isArray(emails) is false for a missing property and for every JSON
\* value that is not a list.
JsonArray(items) == [isArray |-> TRUE, items |-> items]

NotAnArray == [isArray |-> FALSE, items |-> <<>>]

EntryOk == [to |-> AddrAlice, subject |-> SubjMeeting, text |-> TextSeeYou]

EntrySpam == [to |-> AddrBob, subject |-> SubjAllCaps, text |-> TextSeeYou]

EntryBadAddr == [to |-> AddrNoAt, subject |-> SubjMeeting, text |-> TextSeeYou]

EntryNoText == [to |-> AddrAlice, subject |-> SubjMeeting]

Entries == {EntryOk, EntrySpam, EntryBadAddr, EntryNoText, null}

BulkTemplates ==
  {EmptyObj,
   [templateType |-> "transactional"],
   [to |-> AddrBob, subject |-> SubjMeeting, text |-> TextTwoLines]}

MaxList == 2

BulkMax == 10

\* Every list of up to MaxList entries, with every template.
ShortLists == SeqsUpTo(Entries, MaxList)

\* Lists at and just over the limit, of entries that fail their first check.
LongLists == {[i \in 1..n |-> EntryBadAddr] : n \in {BulkMax, BulkMax + 1}}

BulkBodies ==
  {[emails |-> JsonArray(l)] @@ Prop(hasT, "template", t) :
     l \in ShortLists, t \in BulkTemplates, hasT \in BOOLEAN}
    \cup {[emails |-> JsonArray(l)] : l \in LongLists}
    \cup {[emails |-> NotAnArray]}

ClientIP == "198.51.100.1"

OtherIP == "198.51.100.2"

IPs == {ClientIP, OtherIP}

Slots == {1, 2}

(***************************************************************************)
(* State                                                                   *)
(***************************************************************************)
VARIABLES
  hits,    \* emailLimiter's store: requests counted per source address in the current window
  passed,  \* per source address, the requests of the current window handed to a route handler
  ctx      \* per request in flight: where its handler stands, its locals and its response

vars == <<hits, passed, ctx>>

\* emailLimiter: max requests per window and source address.
limiterMax == 5

NoResp == [status |-> 0]

IdleCtx ==
  [pc |-> "idle", route |-> "none", ip |-> "none", body |-> EmptyObj,
   cur |-> EmptyObj, idx |-> 0, bi |-> 0, results |-> <<>>, resp |-> NoResp,
   log |-> <<>>, sent |-> <<>>, outcomes |-> <<>>, lookups |-> <<>>,
   delays |-> 0]

Init ==
  /\ hits = [ip \in IPs |-> 0]
  /\ passed = [ip \in IPs |-> 0]
  /\ ctx = [r \in Slots |-> IdleCtx]

(***************************************************************************)
(* Error messages: a fixed text and, for the recipient errors, the address *)
(* interpolated after it.                                                  *)
(***************************************************************************)
Msg(text, arg) == [text |-> text, arg |-> arg]

InvalidAddressMsg(email) == Msg("Invalid email address: ", email)

InvalidDomainMsg(email) == Msg("Invalid domain for email: ", email)

SpamMsg == Msg("Email content appears to be spam-like", <<>>)

MatchTypeError == Msg("(subject + text).match is not a function", <<>>)

ReplaceTypeError ==
  Msg("Cannot read properties of undefined (reading 'replace')", <<>>)

NullTypeError == Msg("Cannot read properties of null (reading 'to')", <<>>)

TooManyMsg == Msg("Too many emails sent from this IP, please try again later.", <<>>)

BulkLimitMsg == Msg("Maximum 10 emails allowed per bulk request", <<>>)

InternalMsg == Msg("Internal server error", <<>>)

Event(ev, arg, res, entry) == [ev |-> ev, arg |-> arg, res |-> res, entry |-> entry]

Logged(c, ev, arg, res) == [c EXCEPT !.log = Append(@, Event(ev, arg, res, c.bi))]

(***************************************************************************)
(* sendEmail                                                               *)
(***************************************************************************)
\* cc = [] and bcc = [] defaults of the destructuring.
ccOf(emailData) == IF "cc" \in DOMAIN emailData THEN emailData.cc ELSE <<>>

bccOf(emailData) == IF "bcc" \in DOMAIN emailData THEN emailData.bcc ELSE <<>>

\* The bcc addresses are taken before the cc addresses.
allRecipients_BccFirst(emailData) ==
  SelectSeq(<<Get(emailData, "to")>> \o bccOf(emailData) \o ccOf(emailData), Truthy)

\* [to, ...cc, ...bcc].filter(Boolean)
allRecipients(emailData) ==
  SelectSeq(<<Get(emailData, "to")>> \o ccOf(emailData) \o bccOf(emailData), Truthy)

\* templateType = 'notification' default of the destructuring.
templateTypeOf(emailData) ==
  IF "templateType" \in DOMAIN emailData THEN emailData.templateType
  ELSE "notification"

\* html || createEmailTemplate(text.replace(/\n/g, '<br>'), templateType)
finalHtml(emailData) ==
  IF Truthy(Get(emailData, "html")) THEN emailData.html
  ELSE createEmailTemplate(replaceNewlines(emailData.text),
                           templateTypeOf(emailData))

\* What one composition reads from its environment: Date.now() and
\* Math.random().
Reading(t, x) == [now |-> t, random |-> x]

\* Math.random(): a number of [0, 1) chosen by the engine's generator, which
\* promises nothing about two of its results being different.
RandomValues == {"0.25", "0.75"}

\* `<${Date.now()}.${Math.random()}@${process.env.DOMAIN_NAME}>`, with
\* DOMAIN_NAME unset.
MessageID(env) == [now |-> env.now, random |-> env.random, domain |-> "undefined"]

headers(env) ==
  ("X-Mailer" :> "NodeJS Email Server v1.0")
    @@ ("X-Priority" :> "3")
    @@ ("List-Unsubscribe" :> "<mailto:unsubscribe@undefined>")
    @@ ("Message-ID" :> MessageID(env))

\* cc and bcc are undefined, that is left out, when empty.
mailOptions(emailData, env) ==
  [to |-> Get(emailData, "to"),
   subject |-> Get(emailData, "subject"),
   text |-> Get(emailData, "text"),
   html |-> finalHtml(emailData),
   headers |-> headers(env)]
    @@ Prop(Len(ccOf(emailData)) > 0, "cc", ccOf(emailData))
    @@ Prop(Len(bccOf(emailData)) > 0, "bcc", bccOf(emailData))

\* What transporter.sendMail can do with a message: resolve with the relay's
\* message id and its accepted/rejected partition of the envelope, or reject.
TransportOutcomes(mail) ==
  LET envelope == SelectSeq(<<mail.to>> \o ccOf(mail) \o bccOf(mail), Truthy)
  IN  {[ok |-> TRUE, messageId |-> "<id-1@relay>", accepted |-> envelope,
        rejected |-> <<>>, message |-> ""],
       [ok |-> TRUE, messageId |-> "<id-2@relay>", accepted |-> <<>>,
        rejected |-> envelope, message |-> ""],
       [ok |-> FALSE, messageId |-> "", accepted |-> <<>>, rejected |-> <<>>,
        message |-> "connect ECONNREFUSED"]}

TransportMsg(outcome) == Msg(outcome.message, <<>>)

\* The entry of the bulk list the handler is working on.
emailData(c) == c.body.emails.items[c.bi]

template(c) == IF "template" \in DOMAIN c.body THEN c.body.template ELSE EmptyObj

Respond(c, status, body) ==
  [c EXCEPT !.pc = "done", !.resp = [status |-> status, body |-> body]]

\* An exception leaves the async route handler: its promise is rejected and
\* no code of the route handles the rejection.
Unhandled(c, msg) ==
  [Logged(c, "unhandledRejection", msg.arg, msg.text) EXCEPT !.pc = "unhandled"]

BeginSend(c, data) == [c EXCEPT !.cur = data, !.idx = 1]

PushResult(c, result, outcome) ==
  [c EXCEPT !.results = Append(@, result), !.outcomes = Append(@, outcome)]

RECURSIVE Continue(_, _), Throw(_, _, _), NextIteration(_, _)

\* The head of `for (const emailData of emails)`: the next entry's sendEmail
\* call, or res.json({ results }) after the last.
NextIteration(c, env) ==
  IF c.bi < Len(c.body.emails.items)
    THEN LET n == [c EXCEPT !.bi = @ + 1]
         IN  Continue(BeginSend(n, Spread(emailData(n), template(n))), env)
    ELSE Respond(c, 200, [results |-> c.results])

\* sendEmail throws: the catch block of the route that called it.
Throw(c, msg, env) ==
  LET t == Logged(c, "throw", msg.arg, msg.text)
  IN  IF t.route = "email"
        THEN Respond(t, 400, [success |-> FALSE, error |-> msg])
      ELSE IF emailData(t) = null
        \* emailData.to throws a TypeError inside the catch block
        THEN Unhandled([t EXCEPT !.outcomes = Append(@, "failed")], NullTypeError)
      ELSE NextIteration(
             PushResult(t, [email |-> Get(emailData(t), "to"), success |-> FALSE,
                            error |-> msg], "failed"),
             env)

\* sendEmail returns: the rest of the route's try block.
Return(c, info) ==
  IF c.route = "email"
    THEN Respond(c, 200, [success |-> TRUE, messageId |-> info.messageId,
                          accepted |-> info.accepted, rejected |-> info.rejected])
  ELSE IF emailData(c) = null
    \* emailData.to throws in the try block, and again in the catch block
    THEN Unhandled([c EXCEPT !.outcomes = Append(@, "ok")], NullTypeError)
  ELSE [PushResult(c, [email |-> Get(emailData(c), "to"), success |-> TRUE,
                       messageId |-> info.messageId], "ok")
          EXCEPT !.pc = "delay"]

\* The verdict of the content check is not looked at.
Compose_IgnoreVerdict(c, env) ==
  LET cur == c.cur
      html == IF Truthy(Get(cur, "html")) THEN cur.html ELSE <<>>
      rule == screenRule(Get(cur, "subject"), Get(cur, "text"), html)
      screened == Logged(c, "validateEmailContent", <<>>, rule)
  IN  IF rule = "TypeError" THEN Throw(screened, MatchTypeError, env)
      ELSE IF ~Truthy(Get(cur, "html")) /\ Get(cur, "text") = undefined
        THEN Throw(screened, ReplaceTypeError, env)
      ELSE LET rendered == IF Truthy(Get(cur, "html")) THEN screened
                           ELSE Logged(screened, "createEmailTemplate", <<>>, "ok")
               called == Logged(rendered, "sendMail", <<>>, "called")
           IN  [called EXCEPT !.pc = "transport",
                              !.sent = Append(@, mailOptions(cur, env))]

\* The call of transporter.sendMail is not awaited: a bulk request goes on to
\* its next entry while the transport is still working on this one.
Compose_NoAwait(c, env) ==
  LET cur == c.cur
      html == IF Truthy(Get(cur, "html")) THEN cur.html ELSE <<>>
      rule == screenRule(Get(cur, "subject"), Get(cur, "text"), html)
      screened == Logged(c, "validateEmailContent", <<>>, rule)
  IN  IF rule = "TypeError" THEN Throw(screened, MatchTypeError, env)
      ELSE IF ~validateEmailContent(Get(cur, "subject"), Get(cur, "text"), html)
        THEN Throw(screened, SpamMsg, env)
      ELSE IF ~Truthy(Get(cur, "html")) /\ Get(cur, "text") = undefined
        THEN Throw(screened, ReplaceTypeError, env)
      ELSE LET rendered == IF Truthy(Get(cur, "html")) THEN screened
                           ELSE Logged(screened, "createEmailTemplate", <<>>, "ok")
               called == [Logged(rendered, "sendMail", <<>>, "called")
                            EXCEPT !.sent = Append(@, mailOptions(cur, env))]
           IN  IF c.route = "bulk" THEN NextIteration(called, env)
               ELSE [called EXCEPT !.pc = "transport"]

\* From the content check to the call of transporter.sendMail.  The log entry
\* of the content check records where validateEmailContent ended.
Compose(c, env) ==
  LET cur == c.cur
      html == IF Truthy(Get(cur, "html")) THEN cur.html ELSE <<>>
      rule == screenRule(Get(cur, "subject"), Get(cur, "text"), html)
      screened == Logged(c, "validateEmailContent", <<>>, rule)
  IN  IF rule = "TypeError" THEN Throw(screened, MatchTypeError, env)
      ELSE IF ~validateEmailContent(Get(cur, "subject"), Get(cur, "text"), html)
        THEN Throw(screened, SpamMsg, env)
      ELSE IF ~Truthy(Get(cur, "html")) /\ Get(cur, "text") = undefined
        \* text.replace on undefined
        THEN Throw(screened, ReplaceTypeError, env)
      ELSE LET rendered == IF Truthy(Get(cur, "html")) THEN screened
                           ELSE Logged(screened, "createEmailTemplate", <<>>, "ok")
               called == Logged(rendered, "sendMail", <<>>, "called")
           IN  [called EXCEPT !.pc = "transport",
                              !.sent = Append(@, mailOptions(cur, env))]

\* The recipient loop from address idx on, up to the next await: either the
\* MX lookup of an address that passed validateEmail, or, after the last
\* address, the content check and the transport call.
RecipientLoop(c, all, env) ==
  IF c.idx > Len(all) THEN Compose(c, env)
  ELSE IF validateEmail(all[c.idx])
    THEN [Logged(c, "validateEmail", all[c.idx], "ok") EXCEPT !.pc = "dns"]
    ELSE Throw(Logged(c, "validateEmail", all[c.idx], "fail"),
               InvalidAddressMsg(all[c.idx]), env)

\* The request and its recipient list are bound once, as values.
Continue(c, env) ==
  CHOOSE next \in {RecipientLoop(v, all, env) : v \in {c}, all \in {allRecipients(c.cur)}} : TRUE

(***************************************************************************)
(* Actions                                                                 *)
(***************************************************************************)
\* One request more than max is let through.
limitReached_OffByOne(totalHits) == totalHits > limiterMax + 1

\* express-rate-limit: the request is counted, then refused when the count
\* exceeds max.
limitReached(totalHits) == totalHits > limiterMax

\* A list of eleven entries is let through.
bulkRejected_OffByOne(emails) == ~emails.isArray \/ Len(emails.items) > BulkMax + 1

\* !Array.isArray(emails) || emails.length > 10
bulkRejected(emails) == ~emails.isArray \/ Len(emails.items) > BulkMax

\* app.post('/send-email', emailLimiter, ...) up to its first await.
sendEmailRoute(c, env) == Continue(BeginSend(c, c.body), env)

\* app.post('/send-bulk', emailLimiter, ...) up to its first await.
sendBulkRoute(c, env) ==
  IF bulkRejected(Get(c.body, "emails"))
    THEN Respond(c, 400, [success |-> FALSE, error |-> BulkLimitMsg])
    ELSE NextIteration(c, env)

\* The Date.now() readings that the messages of the requests in flight carry.
Readings ==
  UNION {{ctx[q].sent[k].headers["Message-ID"].now : k \in 1..Len(ctx[q].sent)} :
         q \in Slots}

\* Date.now(): the clock in milliseconds, read as never behind an earlier
\* reading.  Only the order of the readings matters to what follows, so a new
\* reading is either the latest one still carried by a request in flight (the
\* same millisecond) or the number after it (a later millisecond).
DateNow ==
  IF Readings = {} THEN {0}
  ELSE LET latest == CHOOSE t \in Readings : \A u \in Readings : u <= t
       IN  {latest, latest + 1}

\* The readings possible once the one-second timer of request r has fired:
\* later than the reading of the message sent before the timer was set.
DateNowAfterDelay(r) ==
  {t \in DateNow :
     \A k \in 1..Len(ctx[r].sent) : t > ctx[r].sent[k].headers["Message-ID"].now}

\* What a stretch of code can read when the clock reads one of times.
Environments(times) == {Reading(t, x) : t \in times \cup {0}, x \in RandomValues}

\* The code of request r from one await to the next, given as a function of
\* what it reads from the clock and the random generator.  Both are read only
\* where a message is composed, so they are drawn only for a stretch of code
\* that composes one.
Run(r, handler, times) ==
  LET quiet == handler[Reading(0, "0.25")]
  IN  IF Len(quiet.sent) = Len(ctx[r].sent)
        THEN ctx' = [ctx EXCEPT ![r] = quiet]
        ELSE \E t \in times, x \in RandomValues :
               ctx' = [ctx EXCEPT ![r] = handler[Reading(t, x)]]

\* A request arrives: emailLimiter, then the route handler.
Arrive(r, ip, route, body) ==
  /\ ctx[r].pc = "idle"
  /\ hits[ip] <= limiterMax
  /\ hits' = [hits EXCEPT ![ip] = @ + 1]
  /\ LET c == [IdleCtx EXCEPT !.route = route, !.ip = ip, !.body = body]
     IN  IF limitReached(hits'[ip])
           THEN /\ ctx' = [ctx EXCEPT ![r] = Respond(c, 429, [message |-> TooManyMsg])]
                /\ UNCHANGED passed
           ELSE /\ Run(r, [env \in Environments(DateNow) |->
                            IF route = "email" THEN sendEmailRoute(c, env)
                            ELSE sendBulkRoute(c, env)],
                       DateNow)
                /\ passed' = [passed EXCEPT ![ip] = @ + 1]

\* dns.resolveMx settles for the address being checked.
DnsReturn(r) ==
  /\ ctx[r].pc = "dns"
  /\ \E outcome \in DnsOutcomes :
       LET email == allRecipients(ctx[r].cur)[ctx[r].idx]
           c == [ctx[r] EXCEPT !.lookups =
                   Append(@, [domain |-> domain(email), kind |-> outcome.kind,
                              n |-> outcome.n])]
       IN  Run(r, [env \in Environments(DateNow) |->
                    IF validateDomain(outcome)
                      THEN Continue([Logged(c, "validateDomain", email, "ok")
                                       EXCEPT !.idx = @ + 1, !.pc = "run"], env)
                      ELSE Throw([Logged(c, "validateDomain", email, "fail")
                                    EXCEPT !.pc = "run"],
                                 InvalidDomainMsg(email), env)],
               DateNow)
  /\ UNCHANGED <<hits, passed>>

\* transporter.sendMail settles.
TransportReturn(r) ==
  /\ ctx[r].pc = "transport"
  /\ \E outcome \in TransportOutcomes(ctx[r].sent[Len(ctx[r].sent)]) :
       LET c == [ctx[r] EXCEPT !.pc = "run"]
       IN  Run(r, [env \in Environments(DateNow) |->
                    IF outcome.ok
                      THEN Return(Logged(c, "sendMailResolved", <<>>, outcome.messageId),
                                  outcome)
                      ELSE Throw(Logged(c, "sendMailRejected", <<>>, outcome.message),
                                 TransportMsg(outcome), env)],
               DateNow)
  /\ UNCHANGED <<hits, passed>>

\* The one-second timer after a successful bulk entry fires.
DelayElapsed(r) ==
  /\ ctx[r].pc = "delay"
  /\ Run(r, [env \in Environments(DateNowAfterDelay(r)) |->
                NextIteration([ctx[r] EXCEPT !.pc = "run", !.delays = @ + 1], env)],
         DateNowAfterDelay(r))
  /\ UNCHANGED <<hits, passed>>

\* The error-handling middleware, for a rejection that Express forwards to it
\* (Express 5 does; Express 4 leaves the promise rejected and the request
\* unanswered, which is this action never happening).
ErrorMiddleware(r) ==
  /\ ctx[r].pc = "unhandled"
  /\ ctx' = [ctx EXCEPT ![r] =
       Respond(ctx[r], 500, [success |-> FALSE, error |-> InternalMsg])]
  /\ UNCHANGED <<hits, passed>>

\* The clock readings carried by the requests other than r, renumbered from 0
\* in their order: what is told about the clock is only which reading came
\* before which.
Renumbered(r) ==
  LET kept == UNION {{ctx[q].sent[k].headers["Message-ID"].now :
                        k \in 1..Len(ctx[q].sent)} : q \in Slots \ {r}}
      Rank(t) == Cardinality({u \in kept : u < t})
  IN  [q \in Slots |->
         [ctx[q] EXCEPT !.sent =
            [k \in 1..Len(@) |->
               [@[k] EXCEPT !.headers["Message-ID"].now = Rank(@)]]]]

\* The connection of an answered or abandoned request ends; nothing of the
\* request is kept.
Close(r) ==
  /\ ctx[r].pc \in {"done", "unhandled"}
  /\ ctx' = [Renumbered(r) EXCEPT ![r] = IdleCtx]
  /\ UNCHANGED <<hits, passed>>

\* The limiter's window ends: every count starts again.
WindowReset ==
  /\ \E ip \in IPs : hits[ip] > 0
  /\ hits' = [ip \in IPs |-> 0]
  /\ passed' = [ip \in IPs |-> 0]
  /\ UNCHANGED ctx

\* Requests issued one at a time by one client, with every kind of body.
ArriveEmail(r) ==
  /\ r = 1
  /\ \A q \in Slots : ctx[q].pc = "idle"
  /\ \E body \in EmailBodies : Arrive(r, ClientIP, "email", body)

ArriveBulk(r) ==
  /\ r = 1
  /\ \A q \in Slots : ctx[q].pc = "idle"
  /\ \E body \in BulkBodies : Arrive(r, ClientIP, "bulk", body)

Next ==
  \/ \E r \in Slots :
       \/ ArriveEmail(r)
       \/ ArriveBulk(r)
       \/ DnsReturn(r)
       \/ TransportReturn(r)
       \/ DelayElapsed(r)
       \/ ErrorMiddleware(r)
       \/ Close(r)
  \/ WindowReset

Spec == Init /\ [][Next]_vars

\* Every lookup, every transport call and every timer of a request in flight
\* settles in the end: resolveMx and sendMail resolve or reject, and the event
\* loop runs the continuation; a timer fires.  Nothing is assumed of the
\* arrival of requests, nor of the error middleware being reached.
Settling ==
  \A r \in Slots :
    /\ WF_vars(DnsReturn(r))
    /\ WF_vars(TransportReturn(r))
    /\ WF_vars(DelayElapsed(r))

\* Bulk requests issued one at a time, with lists of good, bad and null
\* entries, under that assumption.
SettlingBulkBodies ==
  {[emails |-> JsonArray(l)] : l \in SeqsUpTo({EntryOk, EntryBadAddr, null}, MaxList)}

ArriveBulkAlone(r) ==
  /\ r = 1
  /\ \A q \in Slots : ctx[q].pc = "idle"
  /\ \E body \in SettlingBulkBodies : Arrive(r, ClientIP, "bulk", body)

NextSettling ==
  \/ \E r \in Slots :
       \/ ArriveBulkAlone(r)
       \/ DnsReturn(r)
       \/ TransportReturn(r)
       \/ DelayElapsed(r)
       \/ ErrorMiddleware(r)
       \/ Close(r)
  \/ WindowReset

SpecSettling == Init /\ [][NextSettling]_vars /\ Settling

\* Requests of two clients handled concurrently, with a few bodies: a new
\* request takes the first free slot while the others are still in flight.
FirstFree(r) == ctx[r].pc = "idle" /\ \A q \in Slots : q < r => ctx[q].pc # "idle"

ConcurrentEmailBodies == {EntryBadAddr}

ConcurrentBulkBodies ==
  {[emails |-> JsonArray(<<EntryOk, null>>)], [emails |-> NotAnArray]}

ArriveEmailConcurrently(r) ==
  /\ FirstFree(r)
  /\ \E ip \in IPs, body \in ConcurrentEmailBodies : Arrive(r, ip, "email", body)

ArriveBulkConcurrently(r) ==
  /\ FirstFree(r)
  /\ \E ip \in IPs, body \in ConcurrentBulkBodies : Arrive(r, ip, "bulk", body)

NextConcurrent ==
  \/ \E r \in Slots :
       \/ ArriveEmailConcurrently(r)
       \/ ArriveBulkConcurrently(r)
       \/ DnsReturn(r)
       \/ TransportReturn(r)
       \/ DelayElapsed(r)
       \/ ErrorMiddleware(r)
       \/ Close(r)
  \/ WindowReset

SpecConcurrent == Init /\ [][NextConcurrent]_vars

\* Requests of one client handled concurrently, each of them with work to
\* wait for: an email request with a lookup and a transport call, and a bulk
\* request with a failing entry, a successful one and a null one.
OverlapEmailBodies == {EntryOk}

OverlapBulkBodies == {[emails |-> JsonArray(<<EntrySpam, EntryOk, null>>)]}

ArriveEmailOverlapping(r) ==
  /\ FirstFree(r)
  /\ \E body \in OverlapEmailBodies : Arrive(r, ClientIP, "email", body)

ArriveBulkOverlapping(r) ==
  /\ FirstFree(r)
  /\ \E body \in OverlapBulkBodies : Arrive(r, ClientIP, "bulk", body)

NextOverlap ==
  \/ \E r \in Slots :
       \/ ArriveEmailOverlapping(r)
       \/ ArriveBulkOverlapping(r)
       \/ DnsReturn(r)
       \/ TransportReturn(r)
       \/ DelayElapsed(r)
       \/ ErrorMiddleware(r)
       \/ Close(r)
  \/ WindowReset

SpecOverlap == Init /\ [][NextOverlap]_vars

(***************************************************************************)
(* Vocabulary of the properties                                            *)
(***************************************************************************)
\* The entries whose sendEmail call has started: 0 stands for the one call of
\* a /send-email request.
Started(c) ==
  IF c.route = "email" THEN (IF c.log = <<>> THEN {} ELSE {0})
  ELSE 1..c.bi

\* The argument of the sendEmail call of entry e.
DataOf(c, e) ==
  IF c.route = "email" THEN c.body
  ELSE Spread(c.body.emails.items[e], template(c))

\* What the sendEmail call of entry e did, in order.
CallLog(c, e) ==
  LET OfCall(ev) == ev.entry = e /\ ev.ev # "unhandledRejection"
  IN  SelectSeq(c.log, OfCall)

IsCheck(ev) == ev.ev \in {"validateEmail", "validateDomain"}

Checks(c, e) == SelectSeq(CallLog(c, e), IsCheck)

\* The addresses a request lists: to, then cc, then bcc.
Addresses(d) ==
  (IF "to" \in DOMAIN d THEN <<d.to>> ELSE <<>>) \o ccOf(d) \o bccOf(d)

NonEmpty(s) == s # <<>>

\* The recipient checks of a call, measured against the address list L: the
\* k-th check is validateEmail then validateDomain of each address in turn,
\* only the last may have failed, a failed check is followed by the throw of
\* an error naming its address and by nothing else, and the call goes past
\* the checks only when every address of L passed both.
RecipientChecksFollow(c, e, L) ==
  LET lg == CallLog(c, e)
      ch == Checks(c, e)
      n == Len(ch)
  IN  /\ n <= 2 * Len(L)
      /\ \A k \in 1..n :
           /\ ch[k].arg = L[(k + 1) \div 2]
           /\ ch[k].ev = (IF k % 2 = 1 THEN "validateEmail" ELSE "validateDomain")
           /\ k < n => ch[k].res = "ok"
      /\ \A k \in 1..n : lg[k] = ch[k]
      /\ (n > 0 /\ ch[n].res = "fail") =>
           /\ Len(lg) = n + 1
           /\ lg[n + 1].ev = "throw"
           /\ lg[n + 1].arg = ch[n].arg
           /\ lg[n + 1].res \in {"Invalid email address: ", "Invalid domain for email: "}
      /\ Len(lg) > n /\ (n = 0 \/ ch[n].res = "ok") =>
           /\ n = 2 * Len(L)
           /\ lg[n + 1].ev = "validateEmailContent"

Stage(ev) ==
  CASE ev.ev \in {"validateEmail", "validateDomain"} -> 1
    [] ev.ev = "validateEmailContent" -> 2
    [] ev.ev = "createEmailTemplate" -> 3
    [] ev.ev = "sendMail" -> 4
    [] ev.ev \in {"sendMailResolved", "sendMailRejected"} -> 5
    [] OTHER -> 6

\* The text the keyword rule is said to search.
ScreenedContent(d) ==
  toLowerCase(StringOf(Get(d, "subject")) \o <<" ">> \o StringOf(Get(d, "text"))
              \o <<" ">> \o (IF Truthy(Get(d, "html")) THEN d.html ELSE <<>>))

\* The phrases of the list that occur in it, each once.
DistinctPhrases(d) ==
  LET content == ScreenedContent(d)
      OccursAt(p, i) == \A j \in 1..Len(p) : content[i + j] = p[j]
  IN  {p \in {spamKeywords[k] : k \in 1..Len(spamKeywords)} :
         \E i \in 0..(Len(content) - Len(p)) : OccursAt(p, i)}

CapitalLetters ==
  {"A", "B", "C", "D", "E", "F", "G", "H", "I", "J", "K", "L", "M",
   "N", "O", "P", "Q", "R", "S", "T", "U", "V", "W", "X", "Y", "Z"}

\* subject + text of a request whose subject and text are not both missing.
SubjectText(d) == StringOf(Get(d, "subject")) \o StringOf(Get(d, "text"))

Capitals(s) == Cardinality({i \in 1..Len(s) : s[i] \in CapitalLetters})

\* The content checks made so far: the request data and where the check ended.
Screenings ==
  UNION {{[d |-> DataOf(ctx[r], ctx[r].log[k].entry), rule |-> ctx[r].log[k].res,
           r |-> r, k |-> k] :
            k \in {i \in 1..Len(ctx[r].log) :
                     ctx[r].log[i].ev = "validateEmailContent"}} :
         r \in Slots}

InternalErrors ==
  {MatchTypeError.text, ReplaceTypeError.text, NullTypeError.text}

(***************************************************************************)
(* Properties                                                              *)
(***************************************************************************)
\* C1: a /send-bulk request that reaches its handler with `emails` not a list,
\* or a list of more than 10 entries, is answered 400 with the bulk-limit
\* error at once, and nothing was done for it: no entry was started, no
\* recipient or content check was run, the transport was not called and no
\* result was recorded.
C1_BulkGateRejects ==
  \A r \in Slots :
    LET c == ctx[r]
    IN  (/\ c.route = "bulk"
         /\ c.resp.status # 429
         /\ (~c.body.emails.isArray \/ Len(c.body.emails.items) > 10))
        => /\ c.pc = "done"
           /\ c.resp = [status |-> 400,
                        body |-> [success |-> FALSE, error |-> BulkLimitMsg]]
           /\ c.bi = 0
           /\ c.log = <<>>
           /\ c.sent = <<>>
           /\ c.results = <<>>

\* A list of eleven entries was refused.
C1_Witness ==
  \E r \in Slots :
    /\ ctx[r].route = "bulk"
    /\ ctx[r].body.emails.isArray
    /\ Len(ctx[r].body.emails.items) = 11
    /\ ctx[r].resp.status = 400

\* C2: every /send-bulk request that passed the size gate ends answered 200
\* with one result per entry, in order, result i carrying entry i's `to` and
\* success = true exactly when entry i's sendEmail call returned; a failed
\* entry does not keep the later ones from being processed.
C2_OneResultPerEntry ==
  \A r \in Slots :
    LET c == ctx[r]
        items == c.body.emails.items
    IN  (/\ c.route = "bulk"
         /\ c.resp.status # 429
         /\ c.body.emails.isArray
         /\ Len(items) <= 10
         /\ c.pc \in {"done", "unhandled"})
        => /\ c.pc = "done"
           /\ c.resp.status = 200
           /\ c.resp.body = [results |-> c.results]
           /\ Len(c.results) = Len(items)
           /\ Len(c.outcomes) = Len(items)
           /\ \A i \in 1..Len(c.results) :
                /\ c.results[i].email = Get(items[i], "to")
                /\ c.results[i].success = (c.outcomes[i] = "ok")

\* C3: per source address, at most 5 requests of one limiter window, over both
\* routes together and a bulk request counting once, are handed to a route
\* handler; a request refused by the limiter is answered 429 and ran no
\* recipient check, no content check and no transport call.
C3_RateLimit ==
  /\ \A ip \in IPs : passed[ip] <= 5
  /\ \A r \in Slots :
       ctx[r].resp.status = 429 =>
         /\ ctx[r].pc = "done"
         /\ ctx[r].resp.body = [message |-> TooManyMsg]
         /\ ctx[r].log = <<>>
         /\ ctx[r].sent = <<>>
         /\ ctx[r].results = <<>>
         /\ ctx[r].bi = 0
  /\ \A r \in Slots :
       (ctx[r].pc # "idle" /\ ctx[r].resp.status # 429) =>
         (hits[ctx[r].ip] = 0 \/ passed[ctx[r].ip] >= 1)

\* A bulk request was refused by the limiter after five requests of the same
\* address, at least one of them to the other route, were let through.
C3_Witness ==
  \E r, q \in Slots :
    /\ ctx[r].resp.status = 429
    /\ ctx[r].route = "bulk"
    /\ passed[ctx[r].ip] = 5
    /\ ctx[q].route = "email"
    /\ ctx[q].ip = ctx[r].ip
    /\ ctx[q].resp.status # 429
    /\ ctx[q].pc # "idle"

\* C4 as stated: the recipient checks of every sendEmail call follow the list
\* of all the addresses the request names, to, cc, bcc.
C4_EveryListedAddress ==
  \A r \in Slots : \A e \in Started(ctx[r]) :
    RecipientChecksFollow(ctx[r], e, Addresses(DataOf(ctx[r], e)))

\* C4, amended: the recipient checks of every sendEmail call follow the list
\* of the non-empty addresses the request names, in the order to, cc, bcc,
\* duplicates included: both checks per address, the first failure ends the
\* call with an error naming that address, no later address is checked and
\* the transport is not called.
C4_EveryNonEmptyAddress ==
  \A r \in Slots : \A e \in Started(ctx[r]) :
    RecipientChecksFollow(ctx[r], e,
                          SelectSeq(Addresses(DataOf(ctx[r], e)), NonEmpty))

\* A call skipped an empty cc address and failed on the cc address after it,
\* once `to` had passed both checks.
C4_Witness ==
  \E r \in Slots :
    LET c == ctx[r]
    IN  /\ c.route = "email"
        /\ c.pc = "done"
        /\ Get(c.body, "to") = AddrAlice
        /\ ccOf(c.body) = <<AddrEmpty, AddrNoAt>>
        /\ Len(c.log) = 4
        /\ c.log[3] = Event("validateEmail", AddrNoAt, "fail", 0)
        /\ c.resp.body.error = InvalidAddressMsg(AddrNoAt)

\* C5: within every sendEmail call the recipient checks come first, then the
\* content check, then the template rendering, then the transport call, each
\* of the last three at most once; the transport is called only after every
\* check before it passed and the content check accepted; the template is
\* rendered only for a request without usable html (none, or an empty one).
C5_StageOrder ==
  \A r \in Slots :
    /\ Len(ctx[r].sent)
         = Cardinality({k \in 1..Len(ctx[r].log) : ctx[r].log[k].ev = "sendMail"})
    /\ \A e \in Started(ctx[r]) :
         LET lg == CallLog(ctx[r], e)
             d == DataOf(ctx[r], e)
         IN  /\ \A k \in 1..(Len(lg) - 1) :
                  /\ Stage(lg[k]) <= Stage(lg[k + 1])
                  /\ Stage(lg[k]) >= 2 => Stage(lg[k]) < Stage(lg[k + 1])
             /\ \A k \in 1..Len(lg) :
                  lg[k].ev = "sendMail" =>
                    /\ \E j \in 1..(k - 1) :
                         lg[j].ev = "validateEmailContent" /\ lg[j].res = "none"
                    /\ \A j \in 1..(k - 1) : IsCheck(lg[j]) => lg[j].res = "ok"
                    /\ \A a \in 1..Len(allRecipients(d)) :
                         \E i, j \in 1..(k - 1) :
                           /\ lg[i] = Event("validateEmail", allRecipients(d)[a], "ok", e)
                           /\ lg[j] = Event("validateDomain", allRecipients(d)[a], "ok", e)
                    /\ Truthy(Get(d, "html")) <=> lg[k - 1].ev # "createEmailTemplate"
             /\ \A k \in 1..Len(lg) :
                  lg[k].ev = "createEmailTemplate" => ~Truthy(Get(d, "html"))

\* A call checked two recipients, screened, rendered and called the transport.
C5_Witness ==
  \E r \in Slots :
    LET lg == ctx[r].log
    IN  /\ Len(lg) >= 7
        /\ lg[4].ev = "validateDomain"
        /\ lg[5].ev = "validateEmailContent"
        /\ lg[6].ev = "createEmailTemplate"
        /\ lg[7].ev = "sendMail"

\* C6: the keyword rule rejects exactly when more than 2 distinct phrases of
\* the 9-phrase list occur in the lowercased subject + " " + text + " " + html;
\* a phrase that occurs several times counts once.
C6_KeywordRule ==
  /\ Len(spamKeywords) = 9
  /\ \A s \in Screenings :
       (s.rule = "keywords") <=> (Cardinality(DistinctPhrases(s.d)) > 2)

\* Content with two distinct phrases, one of them three times, passed the
\* keyword rule.
C6_Witness ==
  \E s \in Screenings :
    /\ Get(s.d, "subject") = SubjActNowTwice
    /\ Get(s.d, "text") = TextMoney
    /\ Cardinality(DistinctPhrases(s.d)) = 2
    /\ s.rule # "keywords"

\* C7 as stated: the subject "Free Money!!! Click here now to win" with empty
\* text and html is rejected by the content check.
C7_TwoPhrasesRejected ==
  \A s \in Screenings :
    (/\ Get(s.d, "subject") = SubjFreeMoney
     /\ Get(s.d, "text") = <<>>
     /\ ~Truthy(Get(s.d, "html")))
    => s.rule \in {"keywords", "caps"}

\* C7, amended: the subject "Free Money!!! Click here now to win" with empty
\* text and html holds exactly two distinct phrases and is accepted by the
\* content check: the request goes on to the transport.
C7_TwoPhrasesAccepted ==
  \A s \in Screenings :
    (/\ Get(s.d, "subject") = SubjFreeMoney
     /\ Get(s.d, "text") = <<>>
     /\ ~Truthy(Get(s.d, "html")))
    => /\ DistinctPhrases(s.d) = {kw_free_money, kw_click_here_now}
       /\ s.rule = "none"
       /\ ctx[s.r].log[s.k + 2].ev = "sendMail"

C7_Witness ==
  \E s \in Screenings :
    /\ Get(s.d, "subject") = SubjFreeMoney
    /\ Get(s.d, "text") = <<>>
    /\ ~Truthy(Get(s.d, "html"))
    /\ ctx[s.r].pc = "transport"

\* C8: when the keyword rule lets the content pass, the capitalization rule
\* rejects exactly when the capitals A-Z of subject + text are more than 0.3
\* of its length; html has no part in it.
C8_CapsRule ==
  \A s \in Screenings :
    s.rule \in {"caps", "none"} =>
      ((s.rule = "caps")
         <=> (10 * Capitals(SubjectText(s.d)) > 3 * Len(SubjectText(s.d))))

\* Content at exactly 0.3 in subject + text, with an all-capitals html, was
\* accepted.
C8_Witness ==
  \E s \in Screenings :
    /\ Get(s.d, "subject") = SubjThreeOfTen
    /\ Get(s.d, "text") = <<>>
    /\ Get(s.d, "html") = HtmlUpper
    /\ s.rule = "none"

\* C9: whenever the transport call of a request raises an error, the request
\* ends as a failed result carrying the transport's message unchanged:
\* /send-email answers 400 {success: false, error: message}, and /send-bulk
\* records {success: false, error: message} as the result of that entry.
C9_TransportErrorReported ==
  \A r \in Slots :
    LET c == ctx[r]
    IN  \A k \in 1..Len(c.log) :
          c.log[k].ev = "sendMailRejected" =>
            IF c.route = "email"
              THEN /\ c.pc = "done"
                   /\ c.resp = [status |-> 400,
                                body |-> [success |-> FALSE,
                                          error |-> Msg(c.log[k].res, <<>>)]]
              ELSE /\ Len(c.results) >= c.log[k].entry
                   /\ ~c.results[c.log[k].entry].success
                   /\ c.results[c.log[k].entry].error = Msg(c.log[k].res, <<>>)

\* C10: a request in which an internal failure (a TypeError) was raised is
\* answered, if it is answered, with 500 {success: false, error: "Internal
\* server error"}, and the TypeError's message is in no result sent.
C10_InternalFailureIs500 ==
  \A r \in Slots :
    LET c == ctx[r]
    IN  (/\ c.pc = "done"
         /\ \E k \in 1..Len(c.log) :
              /\ c.log[k].ev \in {"throw", "unhandledRejection"}
              /\ c.log[k].res \in InternalErrors)
        => c.resp = [status |-> 500,
                     body |-> [success |-> FALSE, error |-> InternalMsg]]


\* The Message-ID headers of the messages composed for the requests in flight,
\* each with the request and the call it belongs to.
MessageIDs ==
  UNION {{[r |-> r, k |-> k, id |-> ctx[r].sent[k].headers["Message-ID"]] :
            k \in 1..Len(ctx[r].sent)} : r \in Slots}

\* C11: any two sendEmail calls that reached message composition, of the same
\* request or of two requests handled concurrently, gave their messages
\* different Message-ID headers.
C11_MessageIdsDiffer ==
  \A a, b \in MessageIDs : (a.r # b.r \/ a.k # b.k) => a.id # b.id

\* The entry for which the k-th message of a request was composed.
EntryOfMessage(c, k) ==
  LET IsCall(ev) == ev.ev = "sendMail"
  IN  SelectSeq(c.log, IsCall)[k].entry

\* C12: the html of every message handed to the transport is the request's
\* html unchanged, with no template rendered, when the request has a usable
\* html (a non-empty one); otherwise it is a layout around the text with every
\* newline replaced by <br>: the transactional layout for templateType
\* "transactional", the notification layout for every other or no templateType.
C12_HtmlHandedOver ==
  \A r \in Slots : \A k \in 1..Len(ctx[r].sent) :
    LET c == ctx[r]
        e == EntryOfMessage(c, k)
        d == DataOf(c, e)
        lg == CallLog(c, e)
    IN  IF Truthy(Get(d, "html"))
          THEN /\ c.sent[k].html = d.html
               /\ \A i \in 1..Len(lg) : lg[i].ev # "createEmailTemplate"
          ELSE LET content == replaceNewlines(d.text)
               IN  c.sent[k].html =
                     (IF "templateType" \in DOMAIN d /\ d.templateType = "transactional"
                        THEN templates(content).transactional
                        ELSE templates(content).notification)

RequiredFields == {"to", "subject", "text"}

\* C13: the transport is called only for a request, or a bulk entry merged
\* with the template, that has `to`, `subject` and `text`; a call whose data
\* lacks one of the three never reaches the transport.
C13_RequiredFieldsPresent ==
  \A r \in Slots : \A e \in Started(ctx[r]) :
    LET d == DataOf(ctx[r], e)
        lg == CallLog(ctx[r], e)
    IN  (\E f \in RequiredFields : f \notin DOMAIN d)
          => \A i \in 1..Len(lg) : lg[i].ev # "sendMail"

\* What follows the "@" of an address that has one "@".
PartAfterAt(a) ==
  LET at == CHOOSE i \in 1..Len(a) : a[i] = "@"
  IN  [i \in 1..(Len(a) - at) |-> a[at + i]]

DeniedAddresses == {deny_test, deny_example, deny_admin}

\* The validateDomain calls of a request, in order.
DomainChecks(c) ==
  LET IsDomainCheck(ev) == ev.ev = "validateDomain"
  IN  SelectSeq(c.log, IsDomainCheck)

\* C14: an address passes the recipient check exactly when validateEmail and
\* validateDomain both returned true: a true validateEmail is followed by the
\* validateDomain of the same address, a false result of either ends the call
\* with sendEmail's own error for that address, and after two true results the
\* call goes on.  validateEmail is false for the three denylisted addresses in
\* any letter case.  Every validateDomain call made one MX lookup, of the part
\* of its address after the "@", and returned true exactly when the lookup
\* answered with at least one record; a lookup error made it return false and
\* was not thrown on.
C14_RecipientCheck ==
  \A r \in Slots :
    LET c == ctx[r]
        lg == c.log
        dc == DomainChecks(c)
    IN  /\ \A k \in 1..Len(lg) :
             /\ (lg[k].ev = "validateEmail" /\ toLowerCase(lg[k].arg) \in DeniedAddresses)
                  => lg[k].res = "fail"
             /\ (lg[k].ev = "validateEmail" /\ lg[k].res = "ok" /\ k < Len(lg))
                  => /\ lg[k + 1].ev = "validateDomain"
                     /\ lg[k + 1].arg = lg[k].arg
             /\ (lg[k].ev = "validateEmail" /\ lg[k].res = "fail")
                  => /\ k < Len(lg)
                     /\ lg[k + 1].ev = "throw"
                     /\ lg[k + 1].res = "Invalid email address: "
                     /\ lg[k + 1].arg = lg[k].arg
             /\ (lg[k].ev = "validateDomain" /\ lg[k].res = "fail")
                  => /\ k < Len(lg)
                     /\ lg[k + 1].ev = "throw"
                     /\ lg[k + 1].res = "Invalid domain for email: "
                     /\ lg[k + 1].arg = lg[k].arg
             /\ (lg[k].ev = "validateDomain" /\ lg[k].res = "ok")
                  => /\ k < Len(lg)
                     /\ lg[k + 1].ev \in {"validateEmail", "validateEmailContent"}
        /\ Len(dc) = Len(c.lookups)
        /\ \A k \in 1..Len(dc) :
             /\ c.lookups[k].domain = PartAfterAt(dc[k].arg)
             /\ (dc[k].res = "ok")
                  <=> (c.lookups[k].kind = "records" /\ c.lookups[k].n >= 1)

\* The lookup for the one recipient failed with an error, and the request was
\* answered 400 with sendEmail's invalid-domain error.
C14_Witness ==
  \E r \in Slots :
    LET c == ctx[r]
    IN  /\ c.route = "email"
        /\ Len(c.lookups) = 1
        /\ c.lookups[1] = [domain |-> PartAfterAt(AddrAlice), kind |-> "error", n |-> 0]
        /\ c.resp = [status |-> 400,
                     body |-> [success |-> FALSE, error |-> InvalidDomainMsg(AddrAlice)]]

\* C15: in a /send-bulk request the one-second delay elapses after every
\* entry, failed or successful, before the next entry is started: an entry is
\* started only after as many delays as there are entries before it.
C15_DelayAfterEveryEntry ==
  \A r \in Slots :
    LET c == ctx[r]
    IN  c.route = "bulk" => c.delays >= c.bi - 1

\* The number of events of one kind in a log.
Count(lg, kind) == Cardinality({i \in 1..Len(lg) : lg[i].ev = kind})

\* C16: nothing is retried.  Every sendEmail call, the one of a /send-email
\* request or the one of a bulk entry, calls the transport at most once and
\* does nothing more once it has failed; and when the request has ended, a
\* failed call is reported once: by the 400 answer of /send-email, or by the
\* one failure record of its entry in the 200 answer of /send-bulk, which
\* holds exactly one record per entry.
C16_NoRetry ==
  \A r \in Slots :
    LET c == ctx[r]
    IN  \A e \in Started(c) :
          LET lg == CallLog(c, e)
          IN  /\ Count(lg, "sendMail") <= 1
              /\ Count(lg, "throw") <= 1
              /\ \A i \in 1..Len(lg) : lg[i].ev = "throw" => i = Len(lg)
              /\ (c.pc \in {"done", "unhandled"} /\ Count(lg, "throw") = 1) =>
                   IF c.route = "email"
                     THEN /\ c.resp.status = 400
                          /\ c.resp.body.error.text = lg[Len(lg)].res
                     ELSE /\ c.resp.status = 200
                          /\ Len(c.resp.body.results) = Len(c.body.emails.items)
                          /\ ~c.resp.body.results[e].success
                          /\ c.resp.body.results[e].error.text = lg[Len(lg)].res

\* The last position of a log at which an event of entry e stands (0: none).
LastOf(lg, e) ==
  LET at == {i \in 1..Len(lg) : lg[i].entry = e /\ lg[i].ev # "unhandledRejection"}
  IN  IF at = {} THEN 0 ELSE CHOOSE i \in at : \A j \in at : j <= i

FirstOf(lg, e) ==
  LET at == {i \in 1..Len(lg) : lg[i].entry = e}
  IN  IF at = {} THEN 0 ELSE CHOOSE i \in at : \A j \in at : i <= j

\* C17: a /send-bulk request works on one entry at a time, also while other
\* requests are handled.  The entries are started in list order; when entry
\* i + 1 is started the results hold the outcomes of the entries 1..i, and
\* everything done for entry i (its checks, its screening, its transport call
\* and the settling of that call) comes before anything done for entry i + 1;
\* what the request waits for, if anything, belongs to the entry started last.
C17_OneEntryAtATime ==
  \A r \in Slots :
    LET c == ctx[r]
        lg == c.log
    IN  c.route = "bulk" =>
          /\ c.bi <= Len(c.body.emails.items)
          /\ Len(c.results) \in {c.bi - 1, c.bi}
          /\ \A i \in 1..Len(lg) : lg[i].entry \in 1..c.bi
          /\ \A i \in 1..(Len(lg) - 1) : lg[i].entry <= lg[i + 1].entry
          /\ \A e \in 2..c.bi :
               /\ FirstOf(lg, e) > LastOf(lg, e - 1)
               /\ LastOf(lg, e - 1) > 0
               /\ lg[LastOf(lg, e - 1)].ev \in {"throw", "sendMailResolved"}
          /\ c.pc \in {"dns", "transport"} =>
               /\ Len(c.results) = c.bi - 1
               /\ lg[Len(lg)].entry = c.bi
          /\ Count(lg, "sendMail")
               - Count(lg, "sendMailResolved") - Count(lg, "sendMailRejected")
               = (IF c.pc = "transport" THEN 1 ELSE 0)

\* The second entry of a bulk request was at the transport, the failure of the
\* first recorded, while a request of the other route was waiting too.
C17_Witness ==
  \E r, q \in Slots :
    /\ ctx[r].route = "bulk"
    /\ ctx[r].bi = 2
    /\ ctx[r].pc = "transport"
    /\ Len(ctx[r].results) = 1
    /\ ctx[q].route = "email"
    /\ ctx[q].pc \in {"dns", "transport"}

\* A bulk entry with the fields of the template put over its own.
TemplateOnTop(entry, t) ==
  LET own == IF entry = null THEN {} ELSE DOMAIN entry
  IN  [f \in own \cup DOMAIN t |-> IF f \in DOMAIN t THEN t[f] ELSE entry[f]]

\* C18: every entry of a /send-bulk request is sent as the entry with the
\* template's fields over its own.  The sendEmail call works on that record:
\* its first recipient check is of the record's `to`, its content check is of
\* the record's subject, text and html, and the message handed to the
\* transport carries the record's to, subject and text.  The result of entry i
\* carries entry i's own `to`.
C18_TemplateOnTop ==
  \A r \in Slots :
    LET c == ctx[r]
        items == c.body.emails.items
        t == template(c)
    IN  c.route = "bulk" =>
          /\ c.bi >= 1 => c.cur = TemplateOnTop(items[c.bi], t)
          /\ \A e \in 1..c.bi :
               LET d == TemplateOnTop(items[e], t)
                   ch == Checks(c, e)
               IN  (Len(ch) > 0 /\ Truthy(Get(d, "to"))) => ch[1].arg = d.to
          /\ \A s \in Screenings :
               (s.r = r) =>
                 LET d == TemplateOnTop(items[c.log[s.k].entry], t)
                 IN  /\ (s.rule = "keywords") <=> (Cardinality(DistinctPhrases(d)) > 2)
                     /\ (s.rule = "TypeError")
                          => ("subject" \notin DOMAIN d /\ "text" \notin DOMAIN d)
          /\ \A k \in 1..Len(c.sent) :
               LET d == TemplateOnTop(items[EntryOfMessage(c, k)], t)
               IN  \A f \in {"to", "subject", "text"} : c.sent[k][f] = Get(d, f)
          /\ \A i \in 1..Len(c.results) : c.results[i].email = Get(items[i], "to")

\* An entry addressed to something that is no address was sent to the
\* template's recipient with the template's subject and text, and its result
\* names the entry's own `to`.
C18_Witness ==
  \E r \in Slots :
    LET c == ctx[r]
    IN  /\ c.route = "bulk"
        /\ Len(c.results) >= 1
        /\ c.body.emails.items[1] = EntryBadAddr
        /\ template(c) = [to |-> AddrBob, subject |-> SubjMeeting, text |-> TextTwoLines]
        /\ c.results[1].email = AddrNoAt
        /\ c.results[1].success
        /\ c.sent[1].to = AddrBob
        /\ c.sent[1].text = TextTwoLines

\* A /send-bulk request that got past the limiter and the size gate.
BulkPastGate(r) ==
  /\ ctx[r].route = "bulk"
  /\ ctx[r].resp.status # 429
  /\ ctx[r].body.emails.isArray
  /\ Len(ctx[r].body.emails.items) <= BulkMax

BulkAnswered(r) ==
  /\ ctx[r].route = "bulk"
  /\ ctx[r].resp.status = 200
  /\ Len(ctx[r].resp.body.results) = Len(ctx[r].body.emails.items)

\* C19: with every lookup, transport call and timer settling in the end, a
\* /send-bulk request that is past the size gate is in the end answered 200
\* with a result for every entry of its list, whatever the entries are.
C19_BulkCompletes ==
  \A r \in Slots : BulkPastGate(r) ~> BulkAnswered(r)
====
